---- MODULE Spec2Model ----
(***************************************************************************)
(* Inference gateway: the request layer (FastAPI routes), the two          *)
(* orchestrators (TextModel, ImageModel), the parameter merger, the API    *)
(* key check and the lifetime of the temporary uploaded file.              *)
(*                                                                         *)
(* Python values are encoded as follows.  A dict is the sequence of its    *)
(* <<key, value>> items in insertion order.  None is the string "None";    *)
(* parameter values are the strings "0" (a falsy value: 0, 0.0, {}) and    *)
(* "1" (a truthy one).  Optional[Dict] is a sequence of length at most     *)
(* one: <<>> is None and <<d>> is the dict d.  A path is <<>> (None) or    *)
(* <<"/tmp", uuid, extension>>.                                            *)
(***************************************************************************)
EXTENDS Naturals, Sequences, FiniteSets, TLC

VARIABLES
    settings,    \* get_config(): modality -> llm_args (LLMArgs fields in order)
    fs,          \* the scratch directory: path -> bytes of every existing file
    req,         \* per request: the handler's locals, position and observations
    mergeIn,     \* direct call of _merge_args: [modality, override]
    mergeOut,    \* its result: <<>> before the call, <<dict>> after
    calls        \* direct calls of the orchestrators' other methods, oldest first

vars == <<settings, fs, req, mergeIn, mergeOut, calls>>

----------------------------------------------------------------------------
(* Bounds of the model *)

MaxChunks == 2
MaxCandidates == 2
MaxKeys == 2
MaxBytes == 3
MaxCalls == 2

----------------------------------------------------------------------------
(* Values *)

None == "None"
ParamValues == {"0", "1"}
OptValues == ParamValues \cup {None}

Modalities == {"text", "image"}

LLMArgsFields ==
    << "temperature", "seed", "max_tokens", "top_p",
       "frequency_penalty", "presence_penalty", "response_format" >>

RouteKeys ==
    << "temperature", "max_tokens", "top_p", "frequency_penalty",
       "presence_penalty", "seed", "response_format" >>

Range(s) == {s[i] : i \in DOMAIN s}

KeySet == Range(LLMArgsFields)

----------------------------------------------------------------------------
(* Python dict operations on item sequences *)

DictKeys(d) == {d[i][1] : i \in DOMAIN d}

DictHas(d, k) == k \in DictKeys(d)

DictGet(d, k) == d[CHOOSE i \in DOMAIN d : d[i][1] = k][2]

IsDict(d) == \A i, j \in DOMAIN d : d[i][1] = d[j][1] => i = j

\* d[k] = v: an existing key keeps its place, a new key goes last
DictSet(d, k, v) ==
    IF DictHas(d, k)
    THEN [i \in DOMAIN d |-> IF d[i][1] = k THEN <<k, v>> ELSE d[i]]
    ELSE Append(d, <<k, v>>)

RECURSIVE DictUpdate(_, _)
DictUpdate(d, u) ==
    IF u = <<>> THEN d
    ELSE DictUpdate(DictSet(d, Head(u)[1], Head(u)[2]), Tail(u))

\* the mapping a dict denotes, whatever the order of its items
AsMap(d) == [k \in DictKeys(d) |-> DictGet(d, k)]

----------------------------------------------------------------------------
(* Parameter merger *)

NotNone(item) == item[2] # None

\* model_dump() without exclude_none
ModelDumpAll(llm_args) == llm_args

\* LLMArgs.model_dump(exclude_none=True)
ModelDump(llm_args) == SelectSeq(llm_args, NotNone)

Truthful(item) == item[2] \notin {None, "0"}

\* the comprehension with "if v" for "if v is not None"
CleanOverridesIfV(items) == SelectSeq(items, Truthful)

\* {k: v for k, v in override_args.items() if v is not None}
CleanOverrides(items) == SelectSeq(items, NotNone)

\* truth value of an Optional[Dict]: None and {} are falsy
Truthy(override_args) == override_args # <<>> /\ override_args[1] # <<>>

MergeArgs(llm_args, override_args) ==
    LET default_args == ModelDump(llm_args)
    IN  IF Truthy(override_args)
        THEN DictUpdate(default_args, CleanOverrides(override_args[1]))
        ELSE default_args

TextMergeArgs(cfg, override_args) == MergeArgs(cfg["text"], override_args)

ImageMergeArgs(cfg, override_args) == MergeArgs(cfg["image"], override_args)

MergeFor(modality, cfg, override_args) ==
    IF modality = "text" THEN TextMergeArgs(cfg, override_args)
    ELSE ImageMergeArgs(cfg, override_args)

----------------------------------------------------------------------------
(* Authentication: verify_api_key *)

ConfiguredKey == "your-secret-api-key-here"

HeaderValues == {None, ConfiguredKey, "wrong-key"}

Accepted == [status |-> 200, detail |-> ""]

\* a check that only tests for the header's presence
VerifyApiKeyPresent(api_key, configured) ==
    IF api_key = None
    THEN [status |-> 401,
          detail |-> "Missing API Key. Please provide X-API-Key header."]
    ELSE Accepted

\* the dependency's outcome for the X-API-Key header value (None: no header)
VerifyApiKey(api_key, configured) ==
    IF api_key = None
    THEN [status |-> 401,
          detail |-> "Missing API Key. Please provide X-API-Key header."]
    ELSE IF api_key # configured
    THEN [status |-> 403, detail |-> "Invalid API Key"]
    ELSE Accepted

----------------------------------------------------------------------------
(* Inputs *)

Endpoints == {"text", "textStream", "image", "imageStream"}

ModalityOf(endpoint) ==
    IF endpoint \in {"text", "textStream"} THEN "text" ELSE "image"

IsStream(endpoint) == endpoint \in {"textStream", "imageStream"}

IsImage(endpoint) == endpoint \in {"image", "imageStream"}

AllNone == [k \in KeySet |-> None]

\* the optional fields of a request: supplied ones hold a value
ParamsWith(S) ==
    [k \in KeySet |-> IF k \notin S THEN None
                      ELSE IF k = "temperature" THEN "0" ELSE "1"]

SampleRequestParams ==
    { ParamsWith({}),
      ParamsWith({"temperature", "seed"}),
      ParamsWith(KeySet \ {"response_format"}) }

\* an LLMArgs object: every field, in declaration order
LLMArgsOf(f) == [i \in DOMAIN LLMArgsFields |-> <<LLMArgsFields[i], f[LLMArgsFields[i]]>>]

SampleSettings ==
    { [text  |-> LLMArgsOf([AllNone EXCEPT !["temperature"] = "1",
                                           !["max_tokens"] = "0"]),
       image |-> LLMArgsOf(AllNone)],
      [text  |-> LLMArgsOf([k \in KeySet |-> "1"]),
       image |-> LLMArgsOf([AllNone EXCEPT !["seed"] = "0",
                                           !["top_p"] = "1"])] }

NoUpload == [ext |-> "", data |-> <<>>, prompt |-> ""]

Uploads ==
    { [ext |-> ".png", data |-> <<137, 80>>, prompt |-> "Describe this image"],
      [ext |-> "",     data |-> <<255>>,     prompt |-> "describe"] }

Chunks == {"Hello ", "world"}

CandidateTexts == {"alpha", "beta"}

BoundedSeq(S, n) == UNION {[1..m -> S] : m \in 0..n}

CandidateLists == BoundedSeq(CandidateTexts, MaxCandidates)

BackendErrors == {"connection refused", "retries exhausted"}

WriteError == "No space left on device"

ReadError == "Input/output error"

\* the requests followed through the gateway
Requests == {1}

----------------------------------------------------------------------------
(* Request layer and orchestrator helpers *)

Given(item) == item[2] # None

\* a dict literal that leaves out the fields the request did not supply
RouteLlmArgsSupplied(params) ==
    SelectSeq([i \in DOMAIN RouteKeys |-> <<RouteKeys[i], params[RouteKeys[i]]>>], Given)

\* the llm_args dict literal of the four route handlers
RouteLlmArgs(params) ==
    [i \in DOMAIN RouteKeys |-> <<RouteKeys[i], params[RouteKeys[i]]>>]

\* a name made of the extension alone, the same for every request
TempFilePathShared(r, ext) == <<"/tmp", 0, ext>>

\* os.path.join("/tmp", f"{uuid.uuid4()}{file_extension}"): the uuid of a
\* request is fresh, it is modelled by the request's identity
TempFilePath(r, ext) == <<"/tmp", r, ext>>

NoPath == <<>>

Exists(files, path) == path \in DOMAIN files

Remove(files, path) == [p \in DOMAIN files \ {path} |-> files[p]]

\* if temp_file_path and os.path.exists(temp_file_path): os.remove(...)
RemoveIfExists(files, path) ==
    IF path # NoPath /\ Exists(files, path) THEN Remove(files, path) ELSE files

\* finally block of generate_image_description
GenerateImageFinally(files, path) == RemoveIfExists(files, path)

\* except branch of stream_image_description
StreamImageExcept(files, path) == RemoveIfExists(files, path)

\* a handler that removes the file when it returns, as the single-shot one
StreamImageReturnFinally(files, path) == RemoveIfExists(files, path)

\* stream_image_description returns the StreamingResponse: it has no finally
\* block, the file is left to iterfile
StreamImageReturn(files, path) == files

\* a generator without the finally block
NoCleanup(files, path) == files

\* finally block of iterfile
IterfileFinally(files, path) == RemoveIfExists(files, path)

Created(before, after) == Cardinality(DOMAIN after \ DOMAIN before)

Removed(before, after) == Cardinality(DOMAIN before \ DOMAIN after)

StrictPrefixes(data) == {SubSeq(data, 1, n) : n \in 0..(Len(data) - 1)}

Returned(v) == [kind |-> "return", value |-> v, error |-> ""]

Raised(m) == [kind |-> "raise", value |-> "", error |-> m]

\* response[-1].response if response else ""
LastCandidate(response) == IF response # <<>> THEN response[Len(response)] ELSE ""

\* response[0].response if response else ""
FirstCandidate(response) == IF response # <<>> THEN response[1] ELSE ""

LogLine(where, m) == ("Error in " \o where) \o (": " \o m)

\* an except branch that returns "" instead of re-raising
TextGenerateResponseSwallow(backend) ==
    IF backend.kind = "raise"
    THEN [outcome |-> Returned(""),
          log |-> <<LogLine("generate_response", backend.error)>>]
    ELSE [outcome |-> Returned(FirstCandidate(backend.value)), log |-> <<>>]

\* try/except of TextModel.generate_response around the backend call
TextGenerateResponse(backend) ==
    IF backend.kind = "raise"
    THEN [outcome |-> Raised(backend.error),
          log |-> <<LogLine("generate_response", backend.error)>>]
    ELSE [outcome |-> Returned(FirstCandidate(backend.value)), log |-> <<>>]

\* an except branch of the image orchestrator that logs and returns ""
ImageGenerateResponseSwallow(backend) ==
    IF backend.kind = "raise"
    THEN [outcome |-> Returned(""),
          log |-> <<LogLine("generate_response", backend.error)>>]
    ELSE [outcome |-> Returned(FirstCandidate(backend.value)), log |-> <<>>]

\* try/except of ImageModel.generate_response around builder and backend call
ImageGenerateResponse(backend) ==
    IF backend.kind = "raise"
    THEN [outcome |-> Raised(backend.error),
          log |-> <<LogLine("generate_response", backend.error)>>]
    ELSE [outcome |-> Returned(FirstCandidate(backend.value)), log |-> <<>>]

GenerateResponse(endpoint, backend) ==
    IF endpoint = "text" THEN TextGenerateResponse(backend)
    ELSE ImageGenerateResponse(backend)

NoResponse == [status |-> 0, kind |-> "", body |-> ""]

StreamingResponse == [status |-> 200, kind |-> "text/event-stream", body |-> ""]

AuthResponse(v) == [status |-> v.status, kind |-> "detail", body |-> v.detail]

\* return {"response": response} / raise HTTPException(500, detail=str(e))
RouteResult(outcome) ==
    IF outcome.kind = "return"
    THEN [status |-> 200, kind |-> "response", body |-> outcome.value]
    ELSE [status |-> 500, kind |-> "detail", body |-> outcome.error]

\* yield str(e)
ErrorChunkBare(m) == m

\* yield f"Error: {str(e)}"
ErrorChunk(m) == "Error: " \o m

\* except branch of TextModel.generate_response_stream
TextStreamExcept(m) ==
    [chunk |-> ErrorChunk(m), log |-> <<LogLine("generate_response_stream", m)>>]

\* except branch of ImageModel.generate_response_stream
ImageStreamExcept(m) ==
    [chunk |-> ErrorChunk(m), log |-> <<LogLine("generate_response_stream", m)>>]

StreamExcept(endpoint, m) ==
    IF endpoint = "textStream" THEN TextStreamExcept(m) ELSE ImageStreamExcept(m)

\* a generator that joins each chunk to the one before it
ForwardCoalesced(delivered, chunk) ==
    IF delivered = <<>> THEN <<chunk>>
    ELSE [delivered EXCEPT ![Len(delivered)] = @ \o chunk]

\* async for chunk in ...: yield chunk (orchestrator, then the route's generator)
Forward(delivered, chunk) == Append(delivered, chunk)

----------------------------------------------------------------------------
(* Conversation messages and the image message builder *)

\* request.messages of the text routes: pydantic Message objects
SampleConversations ==
    { << [role |-> "user", content |-> "Hello, how are you?"] >>,
      << [role |-> "user", content |-> "Hi"],
         [role |-> "assistant", content |-> "Hello"],
         [role |-> "user", content |-> "Tell me a joke"] >>,
      << [role |-> "system", content |-> "You are a helpful assistant."],
         [role |-> "user", content |-> "Hi"] >> }

\* Message.model_dump(): the dict of the two fields
MessageModelDump(m) == << <<"role", m.role>>, <<"content", m.content>> >>

\* messages = [m.model_dump() for m in request.messages]
RouteMessages(messages) == [i \in DOMAIN messages |-> MessageModelDump(messages[i])]

B64Alphabet ==
    << "A", "B", "C", "D", "E", "F", "G", "H", "I", "J", "K", "L", "M",
       "N", "O", "P", "Q", "R", "S", "T", "U", "V", "W", "X", "Y", "Z",
       "a", "b", "c", "d", "e", "f", "g", "h", "i", "j", "k", "l", "m",
       "n", "o", "p", "q", "r", "s", "t", "u", "v", "w", "x", "y", "z",
       "0", "1", "2", "3", "4", "5", "6", "7", "8", "9", "+", "/" >>

\* the character of a 6-bit value
B64Char(n) == B64Alphabet[n + 1]

\* base64.b64encode: three bytes give four characters, a last group of one or
\* two bytes is padded with "="
RECURSIVE Base64Chars(_)
Base64Chars(b) ==
    IF b = <<>> THEN <<>>
    ELSE IF Len(b) = 1
    THEN << B64Char(b[1] \div 4), B64Char((b[1] % 4) * 16), "=", "=" >>
    ELSE IF Len(b) = 2
    THEN << B64Char(b[1] \div 4),
            B64Char((b[1] % 4) * 16 + (b[2] \div 16)),
            B64Char((b[2] % 16) * 4), "=" >>
    ELSE << B64Char(b[1] \div 4),
            B64Char((b[1] % 4) * 16 + (b[2] \div 16)),
            B64Char((b[2] % 16) * 4 + (b[3] \div 64)),
            B64Char(b[3] % 64) >> \o Base64Chars(SubSeq(b, 4, Len(b)))

\* bytes.decode('utf-8') of the encoder's output: the characters as one str
RECURSIVE Join(_)
Join(chars) == IF chars = <<>> THEN "" ELSE Head(chars) \o Join(Tail(chars))

\* _encode_image on a file that opens and reads
EncodeImage(files, image_path) == Join(Base64Chars(files[image_path]))

\* os.path.splitext(image_path)[1]: the path keeps the extension apart
SplitExt(image_path) == image_path[3]

UpperCased == << <<".PNG", ".png">>, <<".Jpg", ".jpg">>, <<".WEBP", ".webp">> >>

\* str.lower() on the extensions of the model's uploads
Lower(ext) == IF DictHas(UpperCased, ext) THEN DictGet(UpperCased, ext) ELSE ext

MimeTypes ==
    << <<".jpg", "image/jpeg">>, <<".jpeg", "image/jpeg">>, <<".png", "image/png">>,
       <<".gif", "image/gif">>, <<".webp", "image/webp">> >>

\* a lookup that falls back to image/png
MimeTypePngDefault(ext) ==
    IF DictHas(MimeTypes, ext) THEN DictGet(MimeTypes, ext) ELSE "image/png"

\* {...}.get(ext, 'image/jpeg')
MimeType(ext) ==
    IF DictHas(MimeTypes, ext) THEN DictGet(MimeTypes, ext) ELSE "image/jpeg"

\* f"data:{mime_type};base64,{base64_image}"
DataUrl(mime_type, base64_image) == (("data:" \o mime_type) \o ";base64,") \o base64_image

TextPart(prompt) == << <<"type", "text">>, <<"text", prompt>> >>

ImagePart(url) == << <<"type", "image_url">>, <<"image_url", << <<"url", url>> >> >> >>

\* a builder that puts the image part first
CreateImageMessagesImageFirst(files, image_path, prompt) ==
    LET base64_image == EncodeImage(files, image_path)
        mime_type == MimeType(Lower(SplitExt(image_path)))
    IN  << << <<"role", "user">>,
              <<"content", << ImagePart(DataUrl(mime_type, base64_image)),
                              TextPart(prompt) >> >> >> >>

\* _create_image_messages on a readable file
CreateImageMessages(files, image_path, prompt) ==
    LET base64_image == EncodeImage(files, image_path)
        mime_type == MimeType(Lower(SplitExt(image_path)))
    IN  << << <<"role", "user">>,
              <<"content", << TextPart(prompt),
                              ImagePart(DataUrl(mime_type, base64_image)) >> >> >> >>

----------------------------------------------------------------------------
(* State *)

EmptyFs == [p \in {} |-> <<>>]

WriteFile(files, path, data) ==
    [p \in DOMAIN files \cup {path} |-> IF p = path THEN data ELSE files[p]]

IdleRequest ==
    [ pc             |-> "idle",
      endpoint       |-> "",
      api_key        |-> None,       \* X-API-Key header of the request
      params         |-> AllNone,    \* optional generation fields of the request
      upload         |-> NoUpload,   \* image, prompt
      temp_file_path |-> NoPath,
      messages       |-> <<>>,       \* the route's messages (text endpoints)
      llm_args       |-> <<>>,       \* the route's llm_args, once built
      orch_calls     |-> <<>>,       \* override arguments of each orchestrator call
      backend_calls  |-> <<>>,       \* args of each llm_chat_async / llm_streaming_chat call
      backend_msgs   |-> <<>>,       \* messages of each of these calls
      reads          |-> <<>>,       \* paths _encode_image opened
      chat           |-> <<>>,       \* candidate list llm_chat_async returned
      produced       |-> <<>>,       \* chunks llm_streaming_chat yielded
      delivered      |-> <<>>,       \* chunks the response generator yielded
      raised         |-> <<>>,       \* message of the exception raised in the orchestrator
      response       |-> NoResponse,
      created        |-> 0,          \* files created by the request's upload
      removes        |-> 0,          \* files removed by the request's cleanup
      log            |-> <<>>,       \* logger.error lines
      exit           |-> "" ]

Init ==
    /\ settings \in SampleSettings
    /\ fs = EmptyFs
    /\ req = [r \in Requests |-> IdleRequest]
    /\ mergeIn = [modality |-> "text", override |-> <<>>]
    /\ mergeOut = <<>>
    /\ calls = <<>>

Authorized(key) == VerifyApiKey(key, ConfiguredKey) = Accepted

----------------------------------------------------------------------------
(* Request layer *)

\* verify_api_key raises: the route handler is not called
Reject(r) ==
    /\ req[r].pc = "idle"
    /\ \E e \in Endpoints, key \in HeaderValues :
         LET v == VerifyApiKey(key, ConfiguredKey)
         IN  /\ v # Accepted
             /\ req' = [req EXCEPT ![r] =
                   [@ EXCEPT !.pc = "done", !.endpoint = e, !.api_key = key,
                             !.response = AuthResponse(v), !.exit = "rejected"]]
    /\ UNCHANGED <<settings, fs, mergeIn, mergeOut, calls>>

\* generate_text up to the await of llm_chat_async
GenerateText(r) ==
    /\ req[r].pc = "idle"
    /\ \E key \in HeaderValues, params \in SampleRequestParams,
          conversation \in SampleConversations :
         LET messages == RouteMessages(conversation)
             llm_args == RouteLlmArgs(params)
             merged_args == TextMergeArgs(settings, <<llm_args>>)
         IN  /\ Authorized(key)
             /\ req' = [req EXCEPT ![r] =
                   [@ EXCEPT !.pc = "awaitChat", !.endpoint = "text",
                             !.api_key = key, !.params = params,
                             !.messages = messages,
                             !.llm_args = <<llm_args>>,
                             !.orch_calls = <<<<llm_args>>>>,
                             !.backend_calls = <<merged_args>>,
                             !.backend_msgs = <<messages>>]]
    /\ UNCHANGED <<settings, fs, mergeIn, mergeOut, calls>>

\* stream_text: builds the generator and returns the StreamingResponse
StreamText(r) ==
    /\ req[r].pc = "idle"
    /\ \E key \in HeaderValues, params \in SampleRequestParams,
          conversation \in SampleConversations :
         /\ Authorized(key)
         /\ req' = [req EXCEPT ![r] =
               [@ EXCEPT !.pc = "streamReturned", !.endpoint = "textStream",
                         !.api_key = key, !.params = params,
                         !.messages = RouteMessages(conversation),
                         !.llm_args = <<RouteLlmArgs(params)>>,
                         !.response = StreamingResponse]]
    /\ UNCHANGED <<settings, fs, mergeIn, mergeOut, calls>>

WriteOutcomes == {"ok", "openFails", "copyFails"}

ReadOutcomes == {"ok", "fails"}

\* the file system after open(temp_file_path, "wb") and shutil.copyfileobj
AfterWrite(files, path, data, w) ==
    IF w = "openFails" THEN {files}
    ELSE IF w = "copyFails"
    THEN {WriteFile(files, path, part) : part \in StrictPrefixes(data)}
    ELSE {WriteFile(files, path, data)}

\* generate_image_description up to the await of llm_chat_async, or to its end
\* when writing the upload or reading it back fails
GenerateImageDescription(r) ==
    /\ req[r].pc = "idle"
    /\ \E key \in HeaderValues, params \in SampleRequestParams, up \in Uploads,
          w \in WriteOutcomes, rd \in ReadOutcomes :
         LET path == TempFilePath(r, up.ext)
             llm_args == RouteLlmArgs(params)
             merged_args == ImageMergeArgs(settings, <<llm_args>>)
             base0 == [req[r] EXCEPT !.endpoint = "image", !.api_key = key,
                                    !.params = params, !.upload = up,
                                    !.temp_file_path = path]
         IN  /\ Authorized(key)
             /\ w # "ok" => rd = "ok"
             /\ \E written \in AfterWrite(fs, path, up.data, w) :
                  LET base == [base0 EXCEPT !.created = Created(fs, written)] IN
                  IF w # "ok"
                  THEN \* except: HTTPException(500); finally: remove
                       /\ fs' = GenerateImageFinally(written, path)
                       /\ req' = [req EXCEPT ![r] =
                             [base EXCEPT !.pc = "done", !.exit = "writeFailed",
                                 !.response = RouteResult(Raised(WriteError)),
                                 !.removes = Removed(written, fs')]]
                  ELSE IF rd = "fails" \/ ~Exists(written, path)
                  THEN \* _encode_image raises inside generate_response
                       LET res == ImageGenerateResponse(Raised(ReadError))
                       IN  /\ fs' = GenerateImageFinally(written, path)
                           /\ req' = [req EXCEPT ![r] =
                                 [base EXCEPT !.pc = "done", !.exit = "failed",
                                     !.llm_args = <<llm_args>>,
                                     !.orch_calls = <<<<llm_args>>>>,
                                     !.reads = <<path>>,
                                     !.raised = <<ReadError>>,
                                     !.log = res.log,
                                     !.response = RouteResult(res.outcome),
                                     !.removes = Removed(written, fs')]]
                  ELSE /\ fs' = written
                       /\ req' = [req EXCEPT ![r] =
                             [base EXCEPT !.pc = "awaitChat",
                                 !.llm_args = <<llm_args>>,
                                 !.orch_calls = <<<<llm_args>>>>,
                                 !.reads = <<path>>,
                                 !.backend_calls = <<merged_args>>,
                                 !.backend_msgs =
                                     <<CreateImageMessages(written, path, up.prompt)>>]]
    /\ UNCHANGED <<settings, mergeIn, mergeOut, calls>>

\* llm_chat_async returns: the orchestrator returns the first candidate, the
\* route answers, and (image) the finally block runs
ChatReturns(r) ==
    /\ req[r].pc = "awaitChat"
    /\ \E candidates \in CandidateLists :
         LET res == GenerateResponse(req[r].endpoint, Returned(candidates))
         IN  /\ fs' = IF req[r].endpoint = "image"
                      THEN GenerateImageFinally(fs, req[r].temp_file_path)
                      ELSE fs
             /\ req' = [req EXCEPT ![r] =
                   [@ EXCEPT !.pc = "done",
                             !.exit = IF res.outcome.kind = "return" THEN "ok" ELSE "failed",
                             !.chat = <<candidates>>,
                             !.log = @ \o res.log,
                             !.response = RouteResult(res.outcome),
                             !.removes = @ + Removed(fs, fs')]]
    /\ UNCHANGED <<settings, mergeIn, mergeOut, calls>>

\* llm_chat_async raises
ChatRaises(r) ==
    /\ req[r].pc = "awaitChat"
    /\ \E m \in BackendErrors :
         LET res == GenerateResponse(req[r].endpoint, Raised(m))
         IN  /\ fs' = IF req[r].endpoint = "image"
                      THEN GenerateImageFinally(fs, req[r].temp_file_path)
                      ELSE fs
             /\ req' = [req EXCEPT ![r] =
                   [@ EXCEPT !.pc = "done",
                             !.exit = IF res.outcome.kind = "return" THEN "ok" ELSE "failed",
                             !.raised = <<m>>,
                             !.log = @ \o res.log,
                             !.response = RouteResult(res.outcome),
                             !.removes = @ + Removed(fs, fs')]]
    /\ UNCHANGED <<settings, mergeIn, mergeOut, calls>>

----------------------------------------------------------------------------
(* Streaming endpoints *)

\* stream_image_description: writes the upload and returns the
\* StreamingResponse around iterfile(), or fails in its except branch
StreamImageDescription(r) ==
    /\ req[r].pc = "idle"
    /\ \E key \in HeaderValues, params \in SampleRequestParams, up \in Uploads,
          w \in WriteOutcomes :
         LET path == TempFilePath(r, up.ext)
             base0 == [req[r] EXCEPT !.endpoint = "imageStream", !.api_key = key,
                                    !.params = params, !.upload = up,
                                    !.temp_file_path = path]
         IN  /\ Authorized(key)
             /\ \E written \in AfterWrite(fs, path, up.data, w) :
                  LET base == [base0 EXCEPT !.created = Created(fs, written)] IN
                  IF w # "ok"
                  THEN /\ fs' = StreamImageExcept(written, path)
                       /\ req' = [req EXCEPT ![r] =
                             [base EXCEPT !.pc = "done", !.exit = "writeFailed",
                                 !.response = RouteResult(Raised(WriteError)),
                                 !.removes = Removed(written, fs')]]
                  ELSE /\ fs' = StreamImageReturn(written, path)
                       /\ req' = [req EXCEPT ![r] =
                             [base EXCEPT !.pc = "streamReturned",
                                 !.llm_args = <<RouteLlmArgs(params)>>,
                                 !.response = StreamingResponse,
                                 !.removes = Removed(written, fs')]]
    /\ UNCHANGED <<settings, mergeIn, mergeOut, calls>>

\* the finally block of the response generator: only iterfile has one
GeneratorFinally(endpoint, files, path) ==
    IF endpoint = "imageStream" THEN IterfileFinally(files, path) ELSE files

\* the generator has ended or was closed: its finally block runs
Finish(r, how, base) ==
    /\ fs' = GeneratorFinally(base.endpoint, fs, base.temp_file_path)
    /\ req' = [req EXCEPT ![r] =
          [base EXCEPT !.pc = "done", !.exit = how,
                       !.removes = @ + Removed(fs, fs')]]

\* the consumer's first pull starts generate() / iterfile() and, inside it,
\* generate_response_stream, which runs to the first await of llm_streaming_chat
FirstPull(r) ==
    /\ req[r].pc = "streamReturned"
    /\ LET e == req[r].endpoint
           called == [req[r] EXCEPT !.orch_calls = Append(@, req[r].llm_args)]
       IN  IF e = "textStream"
           THEN /\ req' = [req EXCEPT ![r] =
                      [called EXCEPT !.pc = "awaitChunk",
                          !.backend_calls =
                              Append(@, TextMergeArgs(settings, req[r].llm_args)),
                          !.backend_msgs = Append(@, req[r].messages)]]
                /\ fs' = fs
           ELSE \E rd \in ReadOutcomes :
                  LET path == req[r].temp_file_path
                      read == [called EXCEPT !.reads = Append(@, path)]
                  IN  IF rd = "fails" \/ ~Exists(fs, path)
                      THEN LET ex == StreamExcept(e, ReadError)
                           IN  /\ req' = [req EXCEPT ![r] =
                                     [read EXCEPT !.pc = "atSentinel",
                                         !.raised = <<ReadError>>,
                                         !.log = @ \o ex.log,
                                         !.delivered = Forward(@, ex.chunk)]]
                               /\ fs' = fs
                      ELSE /\ req' = [req EXCEPT ![r] =
                                 [read EXCEPT !.pc = "awaitChunk",
                                     !.backend_calls =
                                         Append(@, ImageMergeArgs(settings, req[r].llm_args)),
                                     !.backend_msgs =
                                         Append(@, CreateImageMessages(fs, path,
                                                       req[r].upload.prompt))]]
                           /\ fs' = fs
    /\ UNCHANGED <<settings, mergeIn, mergeOut, calls>>

\* llm_streaming_chat yields a chunk: both generators yield it on
BackendYields(r) ==
    /\ req[r].pc = "awaitChunk"
    /\ Len(req[r].produced) < MaxChunks
    /\ \E c \in Chunks :
         req' = [req EXCEPT ![r] =
             [@ EXCEPT !.pc = "atYield",
                       !.produced = Append(@, c),
                       !.delivered = Forward(@, c)]]
    /\ UNCHANGED <<settings, fs, mergeIn, mergeOut, calls>>

\* the consumer pulls the next chunk
Pull(r) ==
    /\ req[r].pc = "atYield"
    /\ req' = [req EXCEPT ![r].pc = "awaitChunk"]
    /\ UNCHANGED <<settings, fs, mergeIn, mergeOut, calls>>

\* llm_streaming_chat is exhausted: the generators return
BackendEnds(r) ==
    /\ req[r].pc = "awaitChunk"
    /\ Finish(r, "drained", req[r])
    /\ UNCHANGED <<settings, mergeIn, mergeOut, calls>>

\* llm_streaming_chat raises: the except branch yields the error chunk
BackendRaises(r) ==
    /\ req[r].pc = "awaitChunk"
    /\ \E m \in BackendErrors :
         LET ex == StreamExcept(req[r].endpoint, m)
         IN  req' = [req EXCEPT ![r] =
                 [@ EXCEPT !.pc = "atSentinel",
                           !.raised = <<m>>,
                           !.log = @ \o ex.log,
                           !.delivered = Forward(@, ex.chunk)]]
    /\ UNCHANGED <<settings, fs, mergeIn, mergeOut, calls>>

\* the consumer pulls after the error chunk: the generators return
PullAfterError(r) ==
    /\ req[r].pc = "atSentinel"
    /\ Finish(r, "sentinel", req[r])
    /\ UNCHANGED <<settings, mergeIn, mergeOut, calls>>

\* the consumer goes away after the StreamingResponse was returned.  A
\* generator that was never started runs none of its body; one awaiting the
\* backend gets CancelledError (not an Exception) thrown in; one suspended at
\* a yield is dropped and closed later by the event loop's finalizer
Disconnect(r) ==
    /\ \/ /\ req[r].pc = "streamReturned"
          /\ req' = [req EXCEPT ![r].pc = "done", ![r].exit = "abandoned"]
          /\ fs' = fs
       \/ /\ req[r].pc = "awaitChunk"
          /\ Finish(r, "cancelled", req[r])
       \/ /\ req[r].pc \in {"atYield", "atSentinel"}
          /\ req' = [req EXCEPT ![r].pc = "dropped"]
          /\ fs' = fs
    /\ UNCHANGED <<settings, mergeIn, mergeOut, calls>>

\* aclose() of the dropped generator: GeneratorExit at the yield
AsyncGenFinalize(r) ==
    /\ req[r].pc = "dropped"
    /\ Finish(r, "closed", req[r])
    /\ UNCHANGED <<settings, mergeIn, mergeOut, calls>>

----------------------------------------------------------------------------
(* Specification of the gateway *)

Step(r) ==
    \/ Reject(r)
    \/ GenerateText(r)
    \/ StreamText(r)
    \/ GenerateImageDescription(r)
    \/ StreamImageDescription(r)
    \/ ChatReturns(r)
    \/ ChatRaises(r)
    \/ FirstPull(r)
    \/ BackendYields(r)
    \/ Pull(r)
    \/ BackendEnds(r)
    \/ BackendRaises(r)
    \/ PullAfterError(r)
    \/ Disconnect(r)
    \/ AsyncGenFinalize(r)

Next == \E r \in Requests : Step(r)

Spec == Init /\ [][Next]_vars

\* the server pulls a started response again after each chunk it has sent,
\* unless the consumer has gone, and the event loop finalizes a dropped
\* generator
FairSpec ==
    Spec /\ \A r \in Requests : WF_vars(PullAfterError(r)) /\ WF_vars(AsyncGenFinalize(r))

----------------------------------------------------------------------------
(* Specification of image requests in flight together: the steps of the     *)
(* requests interleave at the handlers' and generators' suspension points.  *)
(* Each request has the configured key and no generation parameters; the    *)
(* backend answers one candidate, yields one kind of chunk or raises one    *)
(* error                                                                    *)

ConcurrentRequests == {1, 2}

ConcurrentInput(q) ==
    /\ q.params = AllNone
    /\ q.chat \in {<<>>, << <<"alpha">> >>}
    /\ q.raised \in {<<>>, <<ReadError>>, <<"connection refused">>}
    /\ \A i \in DOMAIN q.produced : q.produced[i] = "Hello "

InitConcurrent ==
    /\ settings \in SampleSettings
    /\ fs = EmptyFs
    /\ req = [r \in ConcurrentRequests |-> IdleRequest]
    /\ mergeIn = [modality |-> "image", override |-> <<>>]
    /\ mergeOut = <<>>
    /\ calls = <<>>

ConcurrentStep(r) ==
    \/ GenerateImageDescription(r) /\ ConcurrentInput(req'[r])
    \/ StreamImageDescription(r) /\ ConcurrentInput(req'[r])
    \/ ChatReturns(r) /\ ConcurrentInput(req'[r])
    \/ ChatRaises(r) /\ ConcurrentInput(req'[r])
    \/ FirstPull(r) /\ ConcurrentInput(req'[r])
    \/ BackendYields(r) /\ ConcurrentInput(req'[r])
    \/ Pull(r) /\ ConcurrentInput(req'[r])
    \/ BackendEnds(r) /\ ConcurrentInput(req'[r])
    \/ BackendRaises(r) /\ ConcurrentInput(req'[r])
    \/ PullAfterError(r) /\ ConcurrentInput(req'[r])
    \/ Disconnect(r) /\ ConcurrentInput(req'[r])
    \/ AsyncGenFinalize(r) /\ ConcurrentInput(req'[r])

NextConcurrent == \E r \in ConcurrentRequests : ConcurrentStep(r)

ConcurrentSpec == InitConcurrent /\ [][NextConcurrent]_vars

----------------------------------------------------------------------------
(* Specification of the parameter merger on its own: _merge_args is called   *)
(* with every default set and every override argument over MaxKeys fields   *)

Min(a, b) == IF a < b THEN a ELSE b

MergeKeys == {LLMArgsFields[i] : i \in 1..Min(MaxKeys, Len(LLMArgsFields))}

MergeDefaults ==
    { LLMArgsOf([k \in KeySet |-> IF k \in MergeKeys THEN g[k] ELSE None]) :
        g \in [MergeKeys -> OptValues] }

OverrideDicts ==
    { d \in BoundedSeq(MergeKeys \X OptValues, Cardinality(MergeKeys)) : IsDict(d) }

OverrideArgs == {<<>>} \cup {<<d>> : d \in OverrideDicts}

InitMerge ==
    /\ settings \in {[text |-> D, image |-> D] : D \in MergeDefaults}
    /\ mergeIn \in [modality : Modalities, override : OverrideArgs]
    /\ mergeOut = <<>>
    /\ calls = <<>>
    /\ fs = EmptyFs
    /\ req = [r \in Requests |-> IdleRequest]

MergeCall ==
    /\ mergeOut = <<>>
    /\ mergeOut' = <<MergeFor(mergeIn.modality, settings, mergeIn.override)>>
    /\ UNCHANGED <<settings, fs, req, mergeIn, calls>>

MergeSpec == InitMerge /\ [][MergeCall]_vars

----------------------------------------------------------------------------
(* Specification of the image message builder on its own:                   *)
(* _create_image_messages is called on every file of up to MaxBytes bytes   *)
(* under every extension                                                    *)

Extensions ==
    { ".jpg", ".jpeg", ".png", ".gif", ".webp", ".PNG", ".Jpg", ".WEBP",
      ".bmp", ".txt", "" }

SampleBytes == {0, 77, 97, 110, 255}

Prompts == {"describe", "What is in this image?"}

InitBuild ==
    /\ settings \in SampleSettings
    /\ fs \in { WriteFile(EmptyFs, TempFilePath(1, ext), data) :
                  ext \in Extensions, data \in BoundedSeq(SampleBytes, MaxBytes) }
    /\ req = [r \in Requests |-> IdleRequest]
    /\ mergeIn = [modality |-> "image", override |-> <<>>]
    /\ mergeOut = <<>>
    /\ calls = <<>>

\* one call of _create_image_messages: it returns the messages, or raises
\* when _encode_image cannot read the file
Build ==
    /\ calls = <<>>
    /\ \E image_path \in DOMAIN fs, prompt \in Prompts, rd \in ReadOutcomes :
         calls' =
           << [ method     |-> "_create_image_messages",
                image_path |-> image_path,
                prompt     |-> prompt,
                base64_image |-> IF rd = "ok" THEN <<EncodeImage(fs, image_path)>>
                                 ELSE <<>>,
                result     |-> IF rd = "ok"
                               THEN Returned(CreateImageMessages(fs, image_path, prompt))
                               ELSE Raised(ReadError) ] >>
    /\ UNCHANGED <<settings, fs, req, mergeIn, mergeOut>>

BuildSpec == InitBuild /\ [][Build]_vars

----------------------------------------------------------------------------
(* Specification of the orchestrators called directly, one call after the   *)
(* other on the same service objects: generate_response of TextModel and    *)
(* of ImageModel, up to MaxCalls calls                                      *)

\* a merge that updates the LLMArgs object of the settings itself
DefaultsAfterMergeInPlace(llm_args, override_args) ==
    IF Truthy(override_args)
    THEN DictUpdate(llm_args, CleanOverrides(override_args[1]))
    ELSE llm_args

\* _merge_args updates the dict model_dump() built: self.settings.llm_args is
\* after the call what it was before
DefaultsAfterMerge(llm_args, override_args) == llm_args

CallOverrides ==
    { <<>>,
      <<RouteLlmArgs(ParamsWith({"temperature", "seed"}))>>,
      <<RouteLlmArgs(ParamsWith(KeySet \ {"response_format"}))>> }

CallBackends ==
    { Returned(<<>>), Returned(<<"alpha", "beta">>), Raised("connection refused") }

\* messages of a text call; image_path and prompt of an image call
CallInputs(modality, files) ==
    IF modality = "text"
    THEN { RouteMessages(c) : c \in { x \in SampleConversations : Len(x) > 1 } }
    ELSE [image_path : DOMAIN files, prompt : {"describe"}]

InitCalls ==
    /\ settings \in SampleSettings
    /\ fs = [p \in {TempFilePath(1, ".png"), TempFilePath(2, "")} |->
                IF p[2] = 1 THEN <<137, 80>> ELSE <<255>>]
    /\ req = [r \in Requests |-> IdleRequest]
    /\ mergeIn = [modality |-> "text", override |-> <<>>]
    /\ mergeOut = <<>>
    /\ calls = <<>>

\* one call of generate_response, from its first line to its return or raise
Complete ==
    /\ Len(calls) < MaxCalls
    /\ \E modality \in Modalities, override_args \in CallOverrides,
          backend \in CallBackends :
         \E input \in CallInputs(modality, fs) :
           LET merged_args == MergeFor(modality, settings, override_args)
               messages == IF modality = "text" THEN input
                           ELSE CreateImageMessages(fs, input.image_path, input.prompt)
               res == GenerateResponse(modality, backend)
           IN  /\ calls' = Append(calls,
                     [ method   |-> "generate_response",
                       modality |-> modality,
                       input    |-> input,
                       override |-> override_args,
                       backend  |-> backend,
                       defaults |-> settings,
                       args     |-> merged_args,
                       messages |-> messages,
                       result   |-> res.outcome,
                       log      |-> res.log ])
               /\ settings' = [settings EXCEPT ![modality] =
                                  DefaultsAfterMerge(@, override_args)]
    /\ UNCHANGED <<fs, req, mergeIn, mergeOut>>

CallsSpec == InitCalls /\ [][Complete]_vars

----------------------------------------------------------------------------
(* Claims *)

\* value a dict gives a key, None when the key is absent
ValueIn(d, k) == IF DictHas(d, k) THEN DictGet(d, k) ELSE None

\* value an Optional[Dict] argument supplies for a key
Supplied(override_args, k) ==
    IF override_args = <<>> THEN None ELSE ValueIn(override_args[1], k)

Reorderings(d) ==
    { [i \in DOMAIN d |-> d[p[i]]] :
        p \in {q \in [DOMAIN d -> DOMAIN d] : \A i, j \in DOMAIN d : q[i] = q[j] => i = j} }

\* C5: the result of _merge_args (text and image) holds, for each key, the
\* override's value when the override supplies a non-None value ("0" counts),
\* otherwise the default when there is one, otherwise the key is absent; an
\* override that is None, empty or all-None gives the defaults; reordering
\* the override's items gives the same mapping.
C5_MergeLaw ==
    mergeOut # <<>> =>
      LET res == mergeOut[1]
          D   == settings[mergeIn.modality]
          O   == mergeIn.override
          expect(k) == IF Supplied(O, k) # None THEN Supplied(O, k) ELSE ValueIn(D, k)
      IN  /\ IsDict(res)
          /\ DictKeys(res) \subseteq KeySet
          /\ \A k \in KeySet :
               /\ ValueIn(res, k) = expect(k)
               /\ DictHas(res, k) <=> expect(k) # None
          /\ (\A k \in KeySet : Supplied(O, k) = None) =>
               AsMap(res) = [k \in {x \in KeySet : ValueIn(D, x) # None} |-> ValueIn(D, k)]
          /\ O # <<>> =>
               \A O2 \in Reorderings(O[1]) :
                 AsMap(MergeFor(mergeIn.modality, settings, <<O2>>)) = AsMap(res)

\* a merge where one key is overridden by "0", and another key's default
\* survives an explicit None
C5_Witness ==
    /\ mergeOut # <<>>
    /\ mergeIn.override # <<>>
    /\ \E k1, k2 \in KeySet :
         /\ k1 # k2
         /\ Supplied(mergeIn.override, k1) = "0"
         /\ ValueIn(settings[mergeIn.modality], k1) = "1"
         /\ ValueIn(mergeOut[1], k1) = "0"
         /\ DictHas(mergeIn.override[1], k2)
         /\ Supplied(mergeIn.override, k2) = None
         /\ ValueIn(mergeOut[1], k2) = "1"

----------------------------------------------------------------------------
(* Claims on the gateway *)

FilesOf(r) == {p \in DOMAIN fs : p[2] = r}

Finished(r) == req[r].pc = "done"

ListedExits == {"ok", "failed", "writeFailed", "drained", "sentinel"}

\* C1: once an image request (single-shot or streaming) has finished by a
\* successful response, a failure while writing the upload, a failure of the
\* orchestrator call, or the end of the stream (natural end or error chunk),
\* no temporary file of that request exists.
C1_TempFileGone ==
    \A r \in Requests :
      (IsImage(req[r].endpoint) /\ Finished(r) /\ req[r].exit \in ListedExits)
        => FilesOf(r) = {}

\* a streaming image request whose backend failed after a chunk: the file was
\* created, read, and removed by the generator's finally block
C1_Witness ==
    \E r \in Requests :
      /\ req[r].endpoint = "imageStream"
      /\ Finished(r)
      /\ req[r].exit = "sentinel"
      /\ Len(req[r].produced) >= 1
      /\ req[r].created = 1
      /\ req[r].removes = 1
      /\ FilesOf(r) = {}

\* C2: when the consumer of the streaming image endpoint stops pulling before
\* the natural end (after zero, some or all but the last chunk), the
\* temporary file of the request is gone once the request has finished.
C2_DisconnectCleansUp ==
    \A r \in Requests :
      (req[r].endpoint = "imageStream" /\ Finished(r)
         /\ req[r].exit \in {"abandoned", "cancelled", "closed"})
        => FilesOf(r) = {}

\* C3: in a streaming call, once the orchestrator's try block has raised
\* after the backend yielded c1..ck, the consumer has received exactly c1..ck
\* followed by the one chunk "Error: <message>", nothing follows it, and the
\* stream ends without an exception.
C3_ErrorChunkLast ==
    \A r \in Requests :
      (IsStream(req[r].endpoint) /\ req[r].raised # <<>>) =>
        /\ req[r].delivered = req[r].produced \o <<"Error: " \o req[r].raised[1]>>
        /\ req[r].pc \in {"atSentinel", "dropped", "done"}
        /\ req[r].exit \in {"", "sentinel", "closed"}
        /\ req[r].log = <<"Error in generate_response_stream: " \o req[r].raised[1]>>

\* the backend raised after "Hello ": the consumer saw "Hello " and the error
\* chunk, and the stream has ended
C3_Witness ==
    \E r \in Requests :
      /\ req[r].endpoint = "textStream"
      /\ Finished(r)
      /\ req[r].exit = "sentinel"
      /\ req[r].produced = <<"Hello ">>
      /\ req[r].delivered = <<"Hello ", "Error: connection refused">>

IsPrefix(s, t) == Len(s) <= Len(t) /\ SubSeq(t, 1, Len(s)) = s

\* C4 as stated: the chunks delivered are at every moment a prefix of the
\* chunks the backend produced.
C4_PrefixOfBackend ==
    \A r \in Requests : IsPrefix(req[r].delivered, req[r].produced)

\* C4 as amended: the chunks delivered are at every moment exactly the chunks
\* the backend has produced so far, in order, followed, once the orchestrator
\* has caught an exception, by the one synthetic chunk "Error: <message>".
C4_OrderedDelivery ==
    \A r \in Requests :
      LET n == Len(req[r].produced)
          d == req[r].delivered
      IN  /\ IsPrefix(req[r].produced, d)
          /\ Len(d) \in {n, n + 1}
          /\ Len(d) = n + 1 =>
               /\ req[r].raised # <<>>
               /\ d[n + 1] = "Error: " \o req[r].raised[1]

\* a text stream that delivered MaxChunks different chunks in the backend's
\* order
C4_Witness ==
    \E r \in Requests :
      /\ req[r].endpoint = "textStream"
      /\ Len(req[r].produced) = MaxChunks
      /\ req[r].produced[1] # req[r].produced[2]
      /\ req[r].delivered = req[r].produced

\* C6: no argument mapping handed to the backend (llm_chat_async or
\* llm_streaming_chat, text or image) holds None for a key, and a key that is
\* None in both the request and the model's defaults is not in the mapping.
C6_NoNoneToBackend ==
    \A r \in Requests :
      \A i \in DOMAIN req[r].backend_calls :
        LET args == req[r].backend_calls[i]
            D    == settings[ModalityOf(req[r].endpoint)]
        IN  /\ \A j \in DOMAIN args : args[j][2] # None
            /\ \A k \in KeySet :
                 (req[r].params[k] = None /\ ValueIn(D, k) = None)
                   => ~DictHas(args, k)

\* a streaming request that reached the backend although the route's dict
\* held None for a key that has no default either
C6_Witness ==
    \E r \in Requests :
      /\ IsStream(req[r].endpoint)
      /\ req[r].backend_calls # <<>>
      /\ \E k \in KeySet :
           /\ DictHas(req[r].llm_args[1], k)
           /\ ValueIn(req[r].llm_args[1], k) = None
           /\ ValueIn(settings[ModalityOf(req[r].endpoint)], k) = None
           /\ ~DictHas(req[r].backend_calls[1], k)

\* C7: when the orchestrator's single-shot call raises (text or image), the
\* error is logged, the route answers 500 with the original message as its
\* detail, and no {"response": ...} body is produced.
C7_SingleShotFailure ==
    \A r \in Requests :
      (req[r].endpoint \in {"text", "image"} /\ req[r].raised # <<>>) =>
        /\ Finished(r)
        /\ req[r].exit = "failed"
        /\ req[r].response =
             [status |-> 500, kind |-> "detail", body |-> req[r].raised[1]]
        /\ req[r].log = <<"Error in generate_response: " \o req[r].raised[1]>>

\* a text completion whose backend call raised
C7_Witness ==
    \E r \in Requests :
      /\ req[r].endpoint = "text"
      /\ req[r].raised = <<"retries exhausted">>
      /\ req[r].backend_calls # <<>>
      /\ req[r].response.status = 500

\* the request reached a route handler, the orchestrator, the backend or the
\* scratch directory
Touched(r) ==
    \/ req[r].orch_calls # <<>>
    \/ req[r].backend_calls # <<>>
    \/ req[r].llm_args # <<>>
    \/ req[r].temp_file_path # NoPath
    \/ req[r].created > 0
    \/ FilesOf(r) # {}
    \/ req[r].pc \notin {"idle", "done"}
    \/ req[r].exit \notin {"", "rejected"}

C9_DeletedExactlyOnce ==
    \A r \in Requests :
      (req[r].endpoint = "imageStream" /\ Finished(r) /\ req[r].created > 0)
        => req[r].removes = 1

\* C10: a single-shot completion (text or image) answers with the text of
\* the first candidate of the list the backend returned, and with the empty
\* string when that list is empty.
C10_FirstCandidate ==
    \A r \in Requests :
      (req[r].endpoint \in {"text", "image"} /\ req[r].chat # <<>>) =>
        /\ Finished(r)
        /\ req[r].response =
             [status |-> 200, kind |-> "response",
              body |-> IF Len(req[r].chat[1]) = 0 THEN "" ELSE req[r].chat[1][1]]

\* the backend returned no candidate and the image completion answered ""
C10_Witness ==
    \E r \in Requests :
      /\ req[r].endpoint = "image"
      /\ req[r].chat = << <<>> >>
      /\ req[r].response = [status |-> 200, kind |-> "response", body |-> ""]

----------------------------------------------------------------------------
(* Messages handed to the backend *)

ClosedRoles == {"user", "assistant"}

\* C11: every message handed to the backend (llm_chat_async or
\* llm_streaming_chat), for a text request as for an image request, has a role
\* in {"user", "assistant"}.
C11_RolesClosed ==
    \A r \in DOMAIN req :
      \A i \in DOMAIN req[r].backend_msgs :
        \A j \in DOMAIN req[r].backend_msgs[i] :
          DictGet(req[r].backend_msgs[i][j], "role") \in ClosedRoles

----------------------------------------------------------------------------
(* Claims on the image message builder *)

\* the message list with one user message of a text part and an image part
UserMessage(prompt, url) ==
    << << <<"role", "user">>,
          <<"content",
            << << <<"type", "text">>, <<"text", prompt>> >>,
               << <<"type", "image_url">>,
                  <<"image_url", << <<"url", url>> >> >> >> >> >> >> >>

BuiltCalls == {i \in DOMAIN calls : calls[i].result.kind = "return"}

\* C12 as stated: the MIME type in the built URL is image/jpeg for .jpg and
\* .jpeg, image/png for .png, image/gif for .gif, image/webp for .webp, and
\* image/jpeg for every other extension, the empty one included.
C12_FixedTable ==
    \A i \in BuiltCalls :
      LET ext == calls[i].image_path[3]
          mime == IF ext = ".png" THEN "image/png"
                  ELSE IF ext = ".gif" THEN "image/gif"
                  ELSE IF ext = ".webp" THEN "image/webp"
                  ELSE "image/jpeg"
      IN  calls[i].result.value =
            UserMessage(calls[i].prompt,
                        ("data:" \o mime) \o (";base64," \o calls[i].base64_image[1]))

\* C12 as amended: the extension is compared without regard to case (.PNG is
\* .png, .Jpg is .jpg, .WEBP is .webp); then the table is as stated, with
\* image/jpeg for every extension that is none of the five.
C12_FoldedTable ==
    \A i \in BuiltCalls :
      LET ext == calls[i].image_path[3]
          mime == IF ext \in {".png", ".PNG"} THEN "image/png"
                  ELSE IF ext = ".gif" THEN "image/gif"
                  ELSE IF ext \in {".webp", ".WEBP"} THEN "image/webp"
                  ELSE "image/jpeg"
      IN  calls[i].result.value =
            UserMessage(calls[i].prompt,
                        ("data:" \o mime) \o (";base64," \o calls[i].base64_image[1]))

\* a file named with the upper-case extension .WEBP was given image/webp
C12_Witness ==
    \E i \in BuiltCalls :
      /\ calls[i].image_path[3] = ".WEBP"
      /\ calls[i].base64_image = <<"TWFu">>
      /\ calls[i].result.value =
           UserMessage(calls[i].prompt, "data:image/webp;base64,TWFu")

B64Index(c) == CHOOSE n \in 0..63 : B64Alphabet[n + 1] = c

\* the bytes a base64 text stands for
RECURSIVE Base64Decode(_)
Base64Decode(chars) ==
    IF chars = <<>> THEN <<>>
    ELSE LET b1 == B64Index(chars[1]) * 4 + (B64Index(chars[2]) \div 16)
             b2 == (B64Index(chars[2]) % 16) * 16 + (B64Index(chars[3]) \div 4)
             b3 == (B64Index(chars[3]) % 4) * 64 + B64Index(chars[4])
         IN  IF chars[3] = "=" THEN <<b1>>
             ELSE IF chars[4] = "=" THEN <<b1, b2>>
             ELSE <<b1, b2, b3>> \o Base64Decode(SubSeq(chars, 5, Len(chars)))

\* C13: for every readable file and every prompt the builder returns exactly
\* one message, of role "user", whose content is a text part holding the
\* prompt followed by an image part whose URL is data:<mime>;base64,<payload>,
\* <mime> being the type selected for the file's extension and <payload> the
\* base64 text of the file's bytes (it decodes to them, four characters for
\* every three bytes or part of three).
C13_OneUserMessage ==
    \A i \in BuiltCalls :
      LET path    == calls[i].image_path
          payload == Base64Chars(fs[path])
          mime    == MimeType(Lower(path[3]))
      IN  /\ Base64Decode(payload) = fs[path]
          /\ Len(payload) = 4 * ((Len(fs[path]) + 2) \div 3)
          /\ Len(calls[i].result.value) = 1
          /\ calls[i].result.value =
               UserMessage(calls[i].prompt,
                           ("data:" \o mime) \o (";base64," \o Join(payload)))

\* the two-byte file "Ma" under .gif with the prompt "describe"
C13_Witness ==
    \E i \in BuiltCalls :
      /\ fs[calls[i].image_path] = <<77, 97>>
      /\ calls[i].result.value =
           << << <<"role", "user">>,
                 <<"content",
                   << << <<"type", "text">>, <<"text", "describe">> >>,
                      << <<"type", "image_url">>,
                         <<"image_url",
                           << <<"url", "data:image/gif;base64,TWE=">> >> >> >> >> >> >> >>

----------------------------------------------------------------------------
(* Claims on the text routes *)

SevenKeys ==
    { "temperature", "max_tokens", "top_p", "frequency_penalty",
      "presence_penalty", "seed", "response_format" }

\* C14: an accepted text request calls the orchestrator (once for the
\* single-shot route) with a parameter mapping of exactly the seven keys
\* temperature, max_tokens, top_p, frequency_penalty, presence_penalty, seed
\* and response_format, each holding the request's value for it, None when
\* the request did not supply it.
C14_SevenKeys ==
    \A r \in DOMAIN req :
      req[r].endpoint \in {"text", "textStream"} /\ req[r].api_key = ConfiguredKey =>
        /\ req[r].endpoint = "text" /\ req[r].pc # "idle" => Len(req[r].orch_calls) = 1
        /\ \A i \in DOMAIN req[r].orch_calls :
             /\ Len(req[r].orch_calls[i]) = 1
             /\ LET llm_args == req[r].orch_calls[i][1]
                IN  /\ IsDict(llm_args)
                    /\ Len(llm_args) = 7
                    /\ DictKeys(llm_args) = SevenKeys
                    /\ \A k \in SevenKeys : DictGet(llm_args, k) = req[r].params[k]

\* a text completion that supplied temperature 0 and seed but no
\* response_format: the orchestrator got 0, the seed, and None
C14_Witness ==
    \E r \in DOMAIN req :
      /\ req[r].endpoint = "text"
      /\ req[r].params["temperature"] = "0"
      /\ req[r].params["top_p"] = None
      /\ Len(req[r].orch_calls) = 1
      /\ DictGet(req[r].orch_calls[1][1], "temperature") = "0"
      /\ DictGet(req[r].orch_calls[1][1], "seed") = "1"
      /\ DictGet(req[r].orch_calls[1][1], "top_p") = None
      /\ DictGet(req[r].orch_calls[1][1], "response_format") = None

----------------------------------------------------------------------------
(* Claims on calls that follow one another *)

\* C15: two single-shot calls of the same orchestrator with the same input,
\* the same overrides and the same backend behaviour hand the same messages
\* and arguments to the backend and give the same result; the defaults of
\* both modalities are after every call what they were before the first; and
\* a key that a call's override does not supply has, in that call's merged
\* arguments, the value of the first defaults, whatever earlier calls
\* overrode.
C15_Stateless ==
    /\ \A i, j \in DOMAIN calls :
         ( /\ calls[i].modality = calls[j].modality
           /\ calls[i].input = calls[j].input
           /\ calls[i].override = calls[j].override
           /\ calls[i].backend = calls[j].backend )
         => /\ calls[i].result = calls[j].result
            /\ calls[i].args = calls[j].args
            /\ calls[i].messages = calls[j].messages
    /\ \A i \in DOMAIN calls :
         /\ calls[i].defaults = calls[1].defaults
         /\ settings = calls[1].defaults
         /\ \A k \in KeySet :
              Supplied(calls[i].override, k) = None =>
                ValueIn(calls[i].args, k) =
                  ValueIn(calls[1].defaults[calls[i].modality], k)

\* a call that overrode temperature 1 by 0, followed by a call of the same
\* orchestrator without overrides, which got temperature 1
C15_Witness ==
    \E i, j \in DOMAIN calls :
      /\ i < j
      /\ calls[i].modality = calls[j].modality
      /\ ValueIn(calls[i].defaults[calls[i].modality], "temperature") = "1"
      /\ Supplied(calls[i].override, "temperature") = "0"
      /\ ValueIn(calls[i].args, "temperature") = "0"
      /\ calls[j].override = <<>>
      /\ ValueIn(calls[j].args, "temperature") = "1"

----------------------------------------------------------------------------
(* Claims on image requests in flight together *)

InFlight(r) == req[r].pc \notin {"idle", "done"}

\* the file at path p is created, removed or rewritten by the step
Changed(p) ==
    \/ Exists(fs, p) # Exists(fs', p)
    \/ Exists(fs, p) /\ Exists(fs', p) /\ fs[p] # fs'[p]

OwnNames ==
    /\ \A r, s \in DOMAIN req :
         (r # s /\ req[r].temp_file_path # NoPath) =>
           req[r].temp_file_path # req[s].temp_file_path
    /\ \A r \in DOMAIN req :
         /\ \A i \in DOMAIN req[r].reads : req[r].reads[i] = req[r].temp_file_path
         /\ req[r].created <= 1
         /\ req[r].removes <= req[r].created

OwnFileSteps ==
    /\ \A p \in DOMAIN fs \cup DOMAIN fs' :
         Changed(p) => \E s \in DOMAIN req :
                         req'[s] # req[s] /\ req'[s].temp_file_path = p
    /\ \A r \in DOMAIN req :
         (InFlight(r) /\ req'[r] = req[r]) => ~Changed(req[r].temp_file_path)

\* C16: with image requests in flight together, the temporary files of two
\* requests never have the same name, a request reads only the file of its
\* own name, every step creates, rewrites or removes only the file of the
\* request that takes the step, and the file of a request in flight is left
\* as it is by every step of another request.
C16_OwnFileOnly == []OwnNames /\ [][OwnFileSteps]_vars

\* one streaming request has ended and removed its file while another
\* request, which has read its own file, is still awaiting the backend with
\* its file in place
C16_Witness ==
    \E r, s \in DOMAIN req :
      /\ r # s
      /\ req[r].endpoint = "imageStream" /\ Finished(r) /\ req[r].removes = 1
      /\ InFlight(s) /\ req[s].pc \in {"awaitChat", "awaitChunk"}
      /\ req[s].upload.ext = req[r].upload.ext
      /\ req[s].reads = <<req[s].temp_file_path>>
      /\ Exists(fs, req[s].temp_file_path)

----------------------------------------------------------------------------
(* Claims on the streaming image endpoint *)

StreamReturned(r) ==
    req[r].endpoint = "imageStream" /\ req[r].response = StreamingResponse

LazyRead ==
    \A r \in DOMAIN req :
      StreamReturned(r) =>
        /\ req[r].pc = "streamReturned" =>
             /\ req[r].reads = <<>>
             /\ req[r].backend_calls = <<>>
             /\ Exists(fs, req[r].temp_file_path)
             /\ fs[req[r].temp_file_path] = req[r].upload.data
        /\ req[r].removes > 0 => req[r].reads # <<>>
        /\ req[r].reads # <<>> => req[r].pc # "streamReturned"
        /\ (req[r].reads # <<>> /\ req[r].pc # "done") =>
             Exists(fs, req[r].temp_file_path)

ReadOnFirstPull ==
    \A r \in DOMAIN req :
      (req'[r].endpoint = "imageStream" /\ req'[r].reads # req[r].reads) =>
        /\ req[r].pc = "streamReturned"
        /\ req[r].response = StreamingResponse
        /\ req[r].reads = <<>>
        /\ req'[r].reads = <<req[r].temp_file_path>>
        /\ Exists(fs, req[r].temp_file_path)
        /\ fs' = fs

\* C17: in the streaming image endpoint, when the handler has returned the
\* StreamingResponse the file has not been read and is in place with the
\* upload's bytes; the one read is made by the step of the first pull, which
\* finds the file in place and leaves it; the file stays until the generator
\* ends; and whenever the file has been removed, the read was made before.
C17_LazyRead == []LazyRead /\ [][ReadOnFirstPull]_vars

\* after the first pull: the handler had returned, the builder has read the
\* file, the backend is awaited, and nothing has been removed
C17_Witness ==
    \E r \in DOMAIN req :
      /\ StreamReturned(r)
      /\ req[r].pc = "awaitChunk"
      /\ req[r].reads = <<req[r].temp_file_path>>
      /\ req[r].backend_msgs # <<>>
      /\ req[r].removes = 0
      /\ Exists(fs, req[r].temp_file_path)

----------------------------------------------------------------------------
(* Claims on an upload that cannot be read back *)

ReadFailed(r) == IsImage(req[r].endpoint) /\ req[r].raised = <<ReadError>>

ReadFailureHandled ==
    \A r \in DOMAIN req :
      ReadFailed(r) =>
        /\ req[r].backend_calls = <<>>
        /\ req[r].backend_msgs = <<>>
        /\ req[r].chat = <<>>
        /\ req[r].produced = <<>>
        /\ req[r].reads = <<req[r].temp_file_path>>
        /\ req[r].endpoint = "image" =>
             /\ Finished(r)
             /\ req[r].exit = "failed"
             /\ req[r].response =
                  [status |-> 500, kind |-> "detail", body |-> "Input/output error"]
             /\ req[r].log = <<"Error in generate_response: Input/output error">>
             /\ ~Exists(fs, req[r].temp_file_path)
             /\ req[r].removes = 1
        /\ req[r].endpoint = "imageStream" =>
             /\ req[r].delivered = <<"Error: Input/output error">>
             /\ req[r].log = <<"Error in generate_response_stream: Input/output error">>
             /\ req[r].response = StreamingResponse
             /\ req[r].pc \in {"atSentinel", "dropped", "done"}
             /\ Finished(r) =>
                  /\ req[r].exit \in {"sentinel", "closed"}
                  /\ ~Exists(fs, req[r].temp_file_path)
                  /\ req[r].removes = 1

ReadFailureCleanedUp ==
    \A r \in Requests :
      ReadFailed(r) ~> (Finished(r) /\ ~Exists(fs, req[r].temp_file_path))

\* C18: when _encode_image fails while the messages are built, the backend
\* is not called and the file is opened once; the single-shot image route
\* has then logged the error and answered 500 with its message, its file
\* removed; the streaming image route delivers the one chunk
\* "Error: <message>" and nothing else, and its request goes on to finish
\* with the file removed.
C18_ReadFailure == []ReadFailureHandled /\ ReadFailureCleanedUp

\* a streaming image request whose read failed: the consumer got the error
\* chunk alone, the stream ended, and the file is gone
C18_Witness ==
    \E r \in DOMAIN req :
      /\ req[r].endpoint = "imageStream"
      /\ ReadFailed(r)
      /\ req[r].backend_calls = <<>>
      /\ req[r].delivered = <<"Error: Input/output error">>
      /\ Finished(r)
      /\ req[r].exit = "sentinel"
      /\ req[r].created = 1
      /\ FilesOf(r) = {}

====
